---------------------------- MODULE Spec2Model ----------------------------
(***************************************************************************)
(* Model of in_range_ext: std::in_range extended to floating-point types.   *)
(*                                                                         *)
(* A floating-point type F is a record of its std::numeric_limits<F>       *)
(* (radix, digits, min_exponent, max_exponent).  A value of F is a record  *)
(* [cls, sign, m]: cls is "fin", "inf" or "nan", sign is the sign bit and, *)
(* for a finite value, m is the magnitude counted in units of              *)
(* denorm_min = radix^(min_exponent - digits), so that every finite value  *)
(* of F is an integer number of units and the arithmetic of the model is   *)
(* exact integer arithmetic with the rounding of F made explicit.          *)
(*                                                                         *)
(* The types modelled have infinities, quiet NaNs and subnormals, round to *)
(* nearest with ties to even, and have 1 as a normal number and the radix  *)
(* as a finite one (min_exponent <= 1, max_exponent >= 2), as every        *)
(* floating-point type of a C++ implementation does.                       *)
(*                                                                         *)
(* constexpr_cmath is modelled by its portable substitutes (the branch     *)
(* taken during constant evaluation), which is where the bounds of the     *)
(* three in_range functions are computed.                                  *)
(*                                                                         *)
(* An integer type I is a record [bits, signed]; its arithmetic is taken   *)
(* modulo 2^bits where the code computes in the unsigned counterpart.      *)
(***************************************************************************)
EXTENDS Integers, Sequences, FiniteSets, TLC

VARIABLES tmpl, consts, pc, arg, ret

vars == <<tmpl, consts, pc, arg, ret>>

---------------------------------------------------------------------------
(* Bounds of the model.                                                     *)

MaxDigits == 3
MaxExp == 4
MaxBits == 4
MaxReps == 48
MaxValues == 48

---------------------------------------------------------------------------
(* Arithmetic helpers.                                                      *)

RECURSIVE Pow(_, _)
Pow(b, e) == IF e <= 0 THEN 1 ELSE b * Pow(b, e - 1)

Abs(x) == IF x < 0 THEN -x ELSE x

Min2(a, b) == IF a < b THEN a ELSE b

Max2(a, b) == IF a < b THEN b ELSE a

---------------------------------------------------------------------------
(* Integer types: std::numeric_limits<I> and conversion to make_unsigned.   *)

IntTypes == [bits : 2..MaxBits, signed : BOOLEAN]

ILowest(I) == IF I.signed THEN -Pow(2, I.bits - 1) ELSE 0

IMax(I) == IF I.signed THEN Pow(2, I.bits - 1) - 1 ELSE Pow(2, I.bits) - 1

IntValues(I) == ILowest(I)..IMax(I)

\* static_cast<U>(x): reduction modulo 2^bits.
ToUnsigned(I, x) == x % Pow(2, I.bits)

\* U u = i < 0 ? U(0) - static_cast<U>(i) : U(i);
UnsignedAbs(I, i) ==
    IF i < 0 THEN ToUnsigned(I, 0 - ToUnsigned(I, i)) ELSE ToUnsigned(I, i)

---------------------------------------------------------------------------
(* Floating-point types: std::numeric_limits<F>.                            *)

Radixes == {2, 3}

Formats == [radix : Radixes, digits : 1..MaxDigits,
            min_exponent : {-1, 0, 1}, max_exponent : 2..MaxExp]

\* 1.0 in units of denorm_min.
One(F) == Pow(F.radix, F.digits - F.min_exponent)

\* numeric_limits<F>::max() in units: (R^P - 1) * R^(max_exponent - P).
MaxMant(F) == (Pow(F.radix, F.digits) - 1) * Pow(F.radix, F.max_exponent - F.min_exponent)

\* numeric_limits<F>::min() in units: R^(min_exponent - 1).
MinNormalMant(F) == Pow(F.radix, F.digits - 1)

Fin(s, m) == [cls |-> "fin", sign |-> s, m |-> m]

Inf(s) == [cls |-> "inf", sign |-> s, m |-> 0]

NaN(s) == [cls |-> "nan", sign |-> s, m |-> 0]

FMaxVal(F) == Fin(FALSE, MaxMant(F))

FLowestVal(F) == Fin(TRUE, MaxMant(F))

FMinVal(F) == Fin(FALSE, MinNormalMant(F))

\* The finite magnitudes of F: q * R^j with q < R^P.
FiniteMants(F) ==
    { q * Pow(F.radix, j) : q \in 0..(Pow(F.radix, F.digits) - 1),
                            j \in 0..(F.max_exponent - F.min_exponent) }

FloatValues(F) ==
    { Fin(s, m) : s \in BOOLEAN, m \in FiniteMants(F) }
      \cup { Inf(s) : s \in BOOLEAN } \cup { NaN(s) : s \in BOOLEAN }

\* The signed number of units a finite value denotes.
Units(f) == IF f.sign THEN -f.m ELSE f.m

---------------------------------------------------------------------------
(* The arithmetic of F: correctly rounded, round-to-nearest ties-to-even.   *)

\* Smallest j >= 0 with q < R^(P+j): the exponent of the last kept digit.
RECURSIVE ShiftFor(_, _, _)
ShiftFor(F, q, j) ==
    IF q < Pow(F.radix, F.digits + j) THEN j ELSE ShiftFor(F, q, j + 1)

\* The value num/den units with sign s, rounded to F.
RoundQ(F, s, num, den) ==
    LET j    == ShiftFor(F, num \div den, 0)
        step == den * Pow(F.radix, j)
        q    == num \div step
        r    == num % step
        up   == 2 * r > step \/ (2 * r = step /\ q % 2 = 1)
        m    == (IF up THEN q + 1 ELSE q) * Pow(F.radix, j)
    IN  IF m > MaxMant(F) THEN Inf(s) ELSE Fin(s, m)

\* static_cast<F>(n) for an integer n.
IntToF(F, n) == RoundQ(F, n < 0, Abs(n) * One(F), 1)

\* static_cast<int>(f), I(f): truncation toward zero (f finite and in range).
FToInt(F, f) == IF f.sign THEN -(f.m \div One(F)) ELSE f.m \div One(F)

\* -f
FNeg(f) == [f EXCEPT !.sign = ~f.sign]

\* a + b
FAdd(F, a, b) ==
    IF a.cls = "nan" \/ b.cls = "nan" THEN NaN(FALSE)
    ELSE IF a.cls = "inf" /\ b.cls = "inf"
         THEN IF a.sign = b.sign THEN a ELSE NaN(TRUE)
    ELSE IF a.cls = "inf" THEN a
    ELSE IF b.cls = "inf" THEN b
    ELSE LET s == Units(a) + Units(b)
         IN  IF s = 0 THEN Fin(a.sign /\ b.sign, 0)
             ELSE RoundQ(F, s < 0, Abs(s), 1)

\* a - b
FSub(F, a, b) == FAdd(F, a, FNeg(b))

\* a * b
FMul(F, a, b) ==
    IF a.cls = "nan" \/ b.cls = "nan" THEN NaN(FALSE)
    ELSE IF a.cls = "inf" \/ b.cls = "inf"
         THEN IF (a.cls = "fin" /\ a.m = 0) \/ (b.cls = "fin" /\ b.m = 0)
              THEN NaN(TRUE) ELSE Inf(a.sign # b.sign)
    ELSE RoundQ(F, a.sign # b.sign, a.m * b.m, One(F))

\* a / b
FDiv(F, a, b) ==
    IF a.cls = "nan" \/ b.cls = "nan" THEN NaN(FALSE)
    ELSE IF a.cls = "inf"
         THEN IF b.cls = "inf" THEN NaN(TRUE) ELSE Inf(a.sign # b.sign)
    ELSE IF b.cls = "inf" THEN Fin(a.sign # b.sign, 0)
    ELSE IF b.m = 0
         THEN IF a.m = 0 THEN NaN(TRUE) ELSE Inf(a.sign # b.sign)
    ELSE RoundQ(F, a.sign # b.sign, a.m * One(F), b.m)

\* a < b, a <= b, a == b: false when either operand is NaN; -0 == +0.
FLt(a, b) ==
    /\ a.cls # "nan" /\ b.cls # "nan"
    /\ IF a.cls = "inf" THEN a.sign /\ ~(b.cls = "inf" /\ b.sign)
       ELSE IF b.cls = "inf" THEN ~b.sign
       ELSE Units(a) < Units(b)

FEq(a, b) ==
    /\ a.cls # "nan" /\ b.cls # "nan"
    /\ IF a.cls = "inf" \/ b.cls = "inf"
       THEN a.cls = b.cls /\ a.sign = b.sign
       ELSE Units(a) = Units(b)

FLe(a, b) == FLt(a, b) \/ FEq(a, b)

---------------------------------------------------------------------------
(* namespace constexpr_cmath: the portable substitutes.                     *)

INT_MAX == 2147483647

INT_MIN == -INT_MAX - 1

FP_ILOGB0 == INT_MIN

FP_ILOGBNAN == INT_MIN

FP_NAN == "FP_NAN"

FP_INFINITE == "FP_INFINITE"

FP_ZERO == "FP_ZERO"

FP_SUBNORMAL == "FP_SUBNORMAL"

FP_NORMAL == "FP_NORMAL"

\* constexpr F radix = std::numeric_limits<F>::radix;
RadixF(F) == IntToF(F, F.radix)

signbit(f) == f.sign

\* Mutant of copysign: the sign of a zero is not changed.
copysign_keeps_zero(f, s) ==
    IF f.cls = "fin" /\ f.m = 0 THEN f
    ELSE IF signbit(f) = signbit(s) THEN f ELSE FNeg(f)

copysign(f, s) == IF signbit(f) = signbit(s) THEN f ELSE FNeg(f)

fpclassify(F, f) ==
    IF FEq(f, IntToF(F, 0)) THEN FP_ZERO
    ELSE IF FLt(FNeg(FMinVal(F)), f) /\ FLt(f, FMinVal(F)) THEN FP_SUBNORMAL
    ELSE IF FLe(FLowestVal(F), f) /\ FLe(f, FMaxVal(F)) THEN FP_NORMAL
    ELSE IF FEq(f, f) THEN FP_INFINITE
    ELSE FP_NAN

\* for (; f >= radix; f /= radix) ++exp;
RECURSIVE ilogb_down(_, _, _)
ilogb_down(F, f, exp) ==
    IF FLe(RadixF(F), f) THEN ilogb_down(F, FDiv(F, f, RadixF(F)), exp + 1)
    ELSE exp

\* Mutant of ilogb_up: the exponent of a subnormal is clamped to that of the
\* smallest normal value, min_exponent - 1.
RECURSIVE ilogb_up_clamped(_, _, _)
ilogb_up_clamped(F, f, exp) ==
    IF FLt(f, IntToF(F, 1)) /\ exp > F.min_exponent - 1
    THEN ilogb_up_clamped(F, FMul(F, f, RadixF(F)), exp - 1)
    ELSE ilogb_down(F, f, exp)

\* for (; f < 1; f *= radix) --exp;   followed by the second loop.
RECURSIVE ilogb_up(_, _, _)
ilogb_up(F, f, exp) ==
    IF FLt(f, IntToF(F, 1)) THEN ilogb_up(F, FMul(F, f, RadixF(F)), exp - 1)
    ELSE ilogb_down(F, f, exp)

ilogb(F, f) ==
    IF FEq(f, IntToF(F, 0)) THEN FP_ILOGB0
    ELSE IF FLe(FLowestVal(F), f) /\ FLe(f, FMaxVal(F))
         THEN ilogb_up(F, IF FLt(f, IntToF(F, 0)) THEN FNeg(f) ELSE f, 0)
    ELSE IF FEq(f, f) THEN INT_MAX
    ELSE FP_ILOGBNAN

\* for (; exp < 0; ++exp) f /= radix;  for (; exp > 0; --exp) f *= radix;
RECURSIVE scalbn_loop(_, _, _)
scalbn_loop(F, f, exp) ==
    IF exp < 0 THEN scalbn_loop(F, FDiv(F, f, RadixF(F)), exp + 1)
    ELSE IF exp > 0 THEN scalbn_loop(F, FMul(F, f, RadixF(F)), exp - 1)
    ELSE f

scalbn(F, f, exp) ==
    IF FEq(f, IntToF(F, 0)) \/ ~(FLe(FLowestVal(F), f) /\ FLe(f, FMaxVal(F)))
    THEN f
    ELSE scalbn_loop(F, f, exp)

---------------------------------------------------------------------------
(* decomp_rep<radix, num_digits> and its comparator.                        *)

\* std::array<int, num_digits> digits{}: digits[d] of the code is digits[d+1].
ZeroDigits(N) == [d \in 1..N |-> 0]

decomp_rep(category, sign, digits, exp) ==
    [category |-> category, signbit |-> sign, digits |-> digits, ilogb |-> exp]

isnan(x) == x.category = FP_NAN

isinf(x) == x.category = FP_INFINITE

iszero(x) == x.category = FP_ZERO

ispos(x) == ~x.signbit /\ ~isnan(x) /\ ~iszero(x)

isneg(x) == x.signbit /\ ~isnan(x) /\ ~iszero(x)

isposinf(x) == ~x.signbit /\ isinf(x)

isneginf(x) == x.signbit /\ isinf(x)

\* Mutant of less_digits: the digit order is not reversed for negative operands.
RECURSIVE less_digits_unreversed(_, _, _)
less_digits_unreversed(lhs, rhs, d) ==
    IF d > Len(lhs.digits) THEN FALSE
    ELSE IF lhs.digits[d] # rhs.digits[d] THEN lhs.digits[d] < rhs.digits[d]
    ELSE less_digits_unreversed(lhs, rhs, d + 1)

\* for (d = 0; d < num_digits; ++d) if (lhs.digits[d] != rhs.digits[d]) return ...
RECURSIVE less_digits(_, _, _)
less_digits(lhs, rhs, d) ==
    IF d > Len(lhs.digits) THEN FALSE
    ELSE IF lhs.digits[d] # rhs.digits[d]
         THEN IF isneg(lhs) THEN lhs.digits[d] > rhs.digits[d]
                            ELSE lhs.digits[d] < rhs.digits[d]
    ELSE less_digits(lhs, rhs, d + 1)

\* Mutant of less: zeros are ordered by their sign bit, -0 < +0.
less_signed_zero(lhs, rhs) ==
    IF isnan(lhs) \/ isnan(rhs) THEN FALSE
    ELSE IF isinf(lhs) \/ isinf(rhs)
         THEN (isneginf(lhs) /\ ~isneginf(rhs)) \/ (~isposinf(lhs) /\ isposinf(rhs))
    ELSE IF iszero(lhs) \/ iszero(rhs)
         THEN \/ (iszero(lhs) /\ ispos(rhs))
              \/ (isneg(lhs) /\ iszero(rhs))
              \/ (iszero(lhs) /\ iszero(rhs) /\ lhs.signbit /\ ~rhs.signbit)
    ELSE IF isneg(lhs) # isneg(rhs) THEN isneg(lhs)
    ELSE IF lhs.ilogb # rhs.ilogb
         THEN IF isneg(lhs) THEN lhs.ilogb > rhs.ilogb ELSE lhs.ilogb < rhs.ilogb
    ELSE less_digits(lhs, rhs, 1)

\* operator<(decomp_rep, decomp_rep)
less(lhs, rhs) ==
    IF isnan(lhs) \/ isnan(rhs) THEN FALSE
    ELSE IF isinf(lhs) \/ isinf(rhs)
         THEN (isneginf(lhs) /\ ~isneginf(rhs)) \/ (~isposinf(lhs) /\ isposinf(rhs))
    ELSE IF iszero(lhs) \/ iszero(rhs)
         THEN (iszero(lhs) /\ ispos(rhs)) \/ (isneg(lhs) /\ iszero(rhs))
    ELSE IF isneg(lhs) # isneg(rhs) THEN isneg(lhs)
    ELSE IF lhs.ilogb # rhs.ilogb
         THEN IF isneg(lhs) THEN lhs.ilogb > rhs.ilogb ELSE lhs.ilogb < rhs.ilogb
    ELSE less_digits(lhs, rhs, 1)

\* std::max(a, b) and std::min(a, b) over operator<.
std_max(a, b) == IF less(a, b) THEN b ELSE a

std_min(a, b) == IF less(b, a) THEN b ELSE a

---------------------------------------------------------------------------
(* count_digits and class decomp<radix, num_digits>.                        *)

\* while (u >= radix) { ++num_digits; u /= radix; }
RECURSIVE count_digits_loop(_, _, _)
count_digits_loop(radix, u, num_digits) ==
    IF u >= radix THEN count_digits_loop(radix, u \div radix, num_digits + 1)
    ELSE num_digits

count_digits(radix, I, i) == count_digits_loop(radix, UnsignedAbs(I, i), 1)

\* Mutant of extract_digits: the extracted digit is not subtracted from f
\* before f is multiplied by the radix.
RECURSIVE extract_digits_no_subtract(_, _, _, _, _)
extract_digits_no_subtract(F, f, d, lim, digits) ==
    IF d >= lim THEN digits
    ELSE LET digit == FToInt(F, f)
             ds    == [digits EXCEPT ![d + 1] = digit]
         IN  IF FEq(f, IntToF(F, 0)) THEN ds
             ELSE extract_digits_no_subtract(F, FMul(F, f, RadixF(F)), d + 1, lim, ds)

\* The digit extraction loop of decomp(F).
RECURSIVE extract_digits(_, _, _, _, _)
extract_digits(F, f, d, lim, digits) ==
    IF d >= lim THEN digits
    ELSE LET digit == FToInt(F, f)
             ds    == [digits EXCEPT ![d + 1] = digit]
             f1    == FSub(F, f, IntToF(F, digit))
         IN  IF FEq(f1, IntToF(F, 0)) THEN ds
             ELSE extract_digits(F, FMul(F, f1, RadixF(F)), d + 1, lim, ds)

\* decomp<F.radix, N>::decomp(F f)
decomp_from_float(N, F, f) ==
    LET category == fpclassify(F, f)
        sign     == signbit(f)
        exp      == ilogb(F, f)
    IN  IF category = FP_NORMAL \/ category = FP_SUBNORMAL
        THEN LET a  == IF sign THEN FNeg(f) ELSE f
                 nf == IF exp = INT_MIN
                       THEN FMul(F, scalbn(F, a, INT_MAX), RadixF(F))
                       ELSE scalbn(F, a, -exp)
             IN  decomp_rep(category, sign,
                            extract_digits(F, nf, 0, Min2(F.digits, N), ZeroDigits(N)),
                            exp)
        ELSE decomp_rep(category, sign, ZeroDigits(N), exp)

\* for (d = 0; d < min(digits, num_digits); ++d) f += scalbn(F(digits[d]), -d);
RECURSIVE sum_digits(_, _, _, _, _)
sum_digits(F, rep, d, lim, f) ==
    IF d >= lim THEN f
    ELSE sum_digits(F, rep, d + 1, lim,
                    FAdd(F, f, scalbn(F, IntToF(F, rep.digits[d + 1]), -d)))

\* Mutant of decomp_to_float: an exponent at or beyond max_exponent is clamped
\* to the largest finite value instead of saturating to infinity.
decomp_to_float_clamps(F, rep) ==
    LET f == IF rep.category = FP_ZERO THEN IntToF(F, 0)
             ELSE IF rep.category = FP_SUBNORMAL \/ rep.category = FP_NORMAL
                  THEN IF rep.ilogb >= F.max_exponent THEN FMaxVal(F)
                       ELSE scalbn(F,
                                   sum_digits(F, rep, 0,
                                              Min2(F.digits, Len(rep.digits)),
                                              IntToF(F, 0)),
                                   rep.ilogb)
             ELSE IF rep.category = FP_INFINITE THEN Inf(FALSE)
             ELSE IF rep.category = FP_NAN THEN NaN(FALSE)
             ELSE IntToF(F, 0)
    IN  IF rep.signbit THEN copysign(f, IntToF(F, -1)) ELSE f

\* decomp<F.radix, N>::operator F()
decomp_to_float(F, rep) ==
    LET f == IF rep.category = FP_ZERO THEN IntToF(F, 0)
             ELSE IF rep.category = FP_SUBNORMAL \/ rep.category = FP_NORMAL
                  THEN IF rep.ilogb >= F.max_exponent THEN Inf(FALSE)
                       ELSE scalbn(F,
                                   sum_digits(F, rep, 0,
                                              Min2(F.digits, Len(rep.digits)),
                                              IntToF(F, 0)),
                                   rep.ilogb)
             ELSE IF rep.category = FP_INFINITE THEN Inf(FALSE)
             ELSE IF rep.category = FP_NAN THEN NaN(FALSE)
             ELSE IntToF(F, 0)
    IN  IF rep.signbit THEN copysign(f, IntToF(F, -1)) ELSE f

\* Mutant of int_digits: u is divided only when the digit is stored, which
\* keeps the least significant digits instead of the most significant ones.
RECURSIVE int_digits_keep_low(_, _, _, _)
int_digits_keep_low(radix, u, d, digits) ==
    IF d < 0 THEN digits
    ELSE IF d < Len(digits)
         THEN int_digits_keep_low(radix, u \div radix, d - 1,
                                  [digits EXCEPT ![d + 1] = u % radix])
    ELSE int_digits_keep_low(radix, u, d - 1, digits)

\* for (d = idigits - 1; d >= 0; --d) { if (d < num_digits) digits[d] = u % radix; u /= radix; }
RECURSIVE int_digits(_, _, _, _)
int_digits(radix, u, d, digits) ==
    IF d < 0 THEN digits
    ELSE int_digits(radix, u \div radix, d - 1,
                    IF d < Len(digits) THEN [digits EXCEPT ![d + 1] = u % radix]
                                       ELSE digits)

\* decomp<radix, N>::decomp(I i)
decomp_from_int(radix, N, I, i) ==
    IF i = 0 THEN decomp_rep(FP_ZERO, FALSE, ZeroDigits(N), 0)
    ELSE LET idigits == count_digits(radix, I, i)
         IN  decomp_rep(FP_NORMAL, i < 0,
                        int_digits(radix, UnsignedAbs(I, i), idigits - 1, ZeroDigits(N)),
                        idigits - 1)

---------------------------------------------------------------------------
(* The three in_range entry points.  Each computes its bounds as constexpr  *)
(* locals, once per instantiation, and a call compares its argument with    *)
(* them.                                                                    *)

\* Mutant of int_float_bounds: the bounds are the direct conversions F(I.lowest)
\* and F(I.max), rounded to nearest.
int_float_bounds_naive(I, F) ==
    LET N     == F.digits
        dimin == decomp_from_int(F.radix, N, I, ILowest(I))
        dimax == decomp_from_int(F.radix, N, I, IMax(I))
        dfmin == decomp_from_float(N, F, FLowestVal(F))
        dfmax == decomp_from_float(N, F, FMaxVal(F))
    IN  [capacity |-> N,
         dimin |-> dimin, dimax |-> dimax, dfmin |-> dfmin, dfmax |-> dfmax,
         min_in_range |-> IntToF(F, ILowest(I)),
         max_in_range |-> IntToF(F, IMax(I))]

\* The constexpr locals of in_range<I>(F f).
int_float_bounds(I, F) ==
    LET N     == F.digits
        dimin == decomp_from_int(F.radix, N, I, ILowest(I))
        dimax == decomp_from_int(F.radix, N, I, IMax(I))
        dfmin == decomp_from_float(N, F, FLowestVal(F))
        dfmax == decomp_from_float(N, F, FMaxVal(F))
    IN  [capacity |-> N,
         dimin |-> dimin, dimax |-> dimax, dfmin |-> dfmin, dfmax |-> dfmax,
         min_in_range |-> decomp_to_float(F, std_max(dfmin, dimin)),
         max_in_range |-> decomp_to_float(F, std_min(dfmax, dimax))]

\* Mutant of in_range_int_float: the test is written with negated comparisons,
\* !(f < min_in_range) && !(max_in_range < f).
in_range_int_float_negated(b, f) == ~FLt(f, b.min_in_range) /\ ~FLt(b.max_in_range, f)

\* in_range<I>(F f): return min_in_range <= f && f <= max_in_range;
in_range_int_float(b, f) == FLe(b.min_in_range, f) /\ FLe(f, b.max_in_range)

\* Mutant of float_int_bounds: the operands of both comparisons are exchanged.
float_int_bounds_swapped(F, I) ==
    LET fmin  == FLowestVal(F)
        fmax  == FMaxVal(F)
        imin  == ILowest(I)
        imax  == IMax(I)
        N     == Max2(F.digits, Max2(count_digits(F.radix, I, imin),
                                     count_digits(F.radix, I, imax)))
        dimin == decomp_from_int(F.radix, N, I, imin)
        dimax == decomp_from_int(F.radix, N, I, imax)
        dfmin == decomp_from_float(N, F, fmin)
        dfmax == decomp_from_float(N, F, fmax)
    IN  [capacity |-> N,
         dimin |-> dimin, dimax |-> dimax, dfmin |-> dfmin, dfmax |-> dfmax,
         min_in_range |-> IF less(dfmin, dimin) THEN FToInt(F, fmin) ELSE imin,
         max_in_range |-> IF less(dimax, dfmax) THEN FToInt(F, fmax) ELSE imax]

\* Mutant of float_int_bounds: the two branches of each bound are exchanged, so
\* that the integer extreme is taken when the floating bound is the tighter one.
float_int_bounds_saturating(F, I) ==
    LET fmin  == FLowestVal(F)
        fmax  == FMaxVal(F)
        imin  == ILowest(I)
        imax  == IMax(I)
        N     == Max2(F.digits, Max2(count_digits(F.radix, I, imin),
                                     count_digits(F.radix, I, imax)))
        dimin == decomp_from_int(F.radix, N, I, imin)
        dimax == decomp_from_int(F.radix, N, I, imax)
        dfmin == decomp_from_float(N, F, fmin)
        dfmax == decomp_from_float(N, F, fmax)
    IN  [capacity |-> N,
         dimin |-> dimin, dimax |-> dimax, dfmin |-> dfmin, dfmax |-> dfmax,
         min_in_range |-> IF less(dimin, dfmin) THEN imin ELSE FToInt(F, fmin),
         max_in_range |-> IF less(dfmax, dimax) THEN imax ELSE FToInt(F, fmax)]

\* Mutant of float_int_bounds: the capacity is F's precision alone.
float_int_bounds_low_capacity(F, I) ==
    LET fmin  == FLowestVal(F)
        fmax  == FMaxVal(F)
        imin  == ILowest(I)
        imax  == IMax(I)
        N     == F.digits
        dimin == decomp_from_int(F.radix, N, I, imin)
        dimax == decomp_from_int(F.radix, N, I, imax)
        dfmin == decomp_from_float(N, F, fmin)
        dfmax == decomp_from_float(N, F, fmax)
    IN  [capacity |-> N,
         dimin |-> dimin, dimax |-> dimax, dfmin |-> dfmin, dfmax |-> dfmax,
         min_in_range |-> IF less(dimin, dfmin) THEN FToInt(F, fmin) ELSE imin,
         max_in_range |-> IF less(dfmax, dimax) THEN FToInt(F, fmax) ELSE imax]

\* The constexpr locals of in_range<F>(I i).
float_int_bounds(F, I) ==
    LET fmin  == FLowestVal(F)
        fmax  == FMaxVal(F)
        imin  == ILowest(I)
        imax  == IMax(I)
        N     == Max2(F.digits, Max2(count_digits(F.radix, I, imin),
                                     count_digits(F.radix, I, imax)))
        dimin == decomp_from_int(F.radix, N, I, imin)
        dimax == decomp_from_int(F.radix, N, I, imax)
        dfmin == decomp_from_float(N, F, fmin)
        dfmax == decomp_from_float(N, F, fmax)
    IN  [capacity |-> N,
         dimin |-> dimin, dimax |-> dimax, dfmin |-> dfmin, dfmax |-> dfmax,
         min_in_range |-> IF less(dimin, dfmin) THEN FToInt(F, fmin) ELSE imin,
         max_in_range |-> IF less(dfmax, dimax) THEN FToInt(F, fmax) ELSE imax]

\* in_range<F>(I i): return min_in_range <= i && i <= max_in_range;
in_range_float_int(b, i) == b.min_in_range <= i /\ i <= b.max_in_range

\* Mutant of float_float_bounds: the upper bound is taken with std::max.
float_float_bounds_max_max(Dst, Src) ==
    LET N    == Max2(Dst.digits, Src.digits)
        dmin == decomp_from_float(N, Dst, FLowestVal(Dst))
        dmax == decomp_from_float(N, Dst, FMaxVal(Dst))
        smin == decomp_from_float(N, Src, FLowestVal(Src))
        smax == decomp_from_float(N, Src, FMaxVal(Src))
    IN  [capacity |-> N,
         dmin |-> dmin, dmax |-> dmax, smin |-> smin, smax |-> smax,
         min_in_range |-> decomp_to_float(Src, std_max(dmin, smin)),
         max_in_range |-> decomp_to_float(Src, std_max(dmax, smax))]

\* The constexpr locals of in_range<Dst>(Src f).
float_float_bounds(Dst, Src) ==
    LET N    == Max2(Dst.digits, Src.digits)
        dmin == decomp_from_float(N, Dst, FLowestVal(Dst))
        dmax == decomp_from_float(N, Dst, FMaxVal(Dst))
        smin == decomp_from_float(N, Src, FLowestVal(Src))
        smax == decomp_from_float(N, Src, FMaxVal(Src))
    IN  [capacity |-> N,
         dmin |-> dmin, dmax |-> dmax, smin |-> smin, smax |-> smax,
         min_in_range |-> decomp_to_float(Src, std_max(dmin, smin)),
         max_in_range |-> decomp_to_float(Src, std_min(dmax, smax))]

\* in_range<Dst>(Src f): return min_in_range <= f && f <= max_in_range;
in_range_float_float(b, f) == FLe(b.min_in_range, f) /\ FLe(f, b.max_in_range)

---------------------------------------------------------------------------
(* The state machine.  tmpl is the instantiation (the function and its      *)
(* template arguments), consts its constexpr locals; a call draws the       *)
(* argument arg and leaves the returned value in ret.                       *)

Capacities == 1..(MaxDigits + 1)

Ready == pc = "ready" /\ arg = <<>> /\ ret = <<>>

Return(a, r) == pc' = "done" /\ arg' = a /\ ret' = r /\ UNCHANGED <<tmpl, consts>>

InitRange ==
    /\ Ready
    /\ \/ \E I \in IntTypes, F \in Formats :
            /\ tmpl = [fn |-> "in_range_int_float", I |-> I, F |-> F]
            /\ consts = int_float_bounds(I, F)
       \/ \E F \in Formats, I \in IntTypes :
            /\ tmpl = [fn |-> "in_range_float_int", F |-> F, I |-> I]
            /\ consts = float_int_bounds(F, I)
       \/ \E Dst \in Formats, Src \in Formats :
            /\ Dst.radix = Src.radix
            /\ tmpl = [fn |-> "in_range_float_float", Dst |-> Dst, Src |-> Src]
            /\ consts = float_float_bounds(Dst, Src)

CallInRangeIntFloat ==
    /\ pc = "ready" /\ tmpl.fn = "in_range_int_float"
    /\ \E f \in FloatValues(tmpl.F) : Return(f, in_range_int_float(consts, f))

CallInRangeFloatInt ==
    /\ pc = "ready" /\ tmpl.fn = "in_range_float_int"
    /\ \E i \in IntValues(tmpl.I) : Return(i, in_range_float_int(consts, i))

CallInRangeFloatFloat ==
    /\ pc = "ready" /\ tmpl.fn = "in_range_float_float"
    /\ \E f \in FloatValues(tmpl.Src) : Return(f, in_range_float_float(consts, f))

NextRange ==
    \/ CallInRangeIntFloat
    \/ CallInRangeFloatInt
    \/ CallInRangeFloatFloat

SpecRange == InitRange /\ [][NextRange]_vars

InitCodec ==
    /\ Ready
    /\ consts = <<>>
    /\ \/ \E F \in Formats, N \in Capacities :
            tmpl = [fn |-> "round_trip", F |-> F, N |-> N]
       \/ \E radix \in Radixes, N \in Capacities, I \in IntTypes :
            tmpl = [fn |-> "decomp_int", radix |-> radix, N |-> N, I |-> I]
       \/ \E F \in Formats :
            tmpl = [fn |-> "classify", F |-> F]

\* F(decomp<F.radix, N>(f)): decompose f and convert the representation back.
CallRoundTrip ==
    /\ pc = "ready" /\ tmpl.fn = "round_trip"
    /\ \E f \in FloatValues(tmpl.F) :
         LET rep == decomp_from_float(tmpl.N, tmpl.F, f)
         IN  Return(f, [rep |-> rep, back |-> decomp_to_float(tmpl.F, rep)])

\* decomp<radix, N>(i)
CallDecompInt ==
    /\ pc = "ready" /\ tmpl.fn = "decomp_int"
    /\ \E i \in IntValues(tmpl.I) :
         Return(i, [rep |-> decomp_from_int(tmpl.radix, tmpl.N, tmpl.I, i),
                    idigits |-> count_digits(tmpl.radix, tmpl.I, i)])

\* constexpr_cmath::fpclassify(f), signbit(f), ilogb(f)
CallClassify ==
    /\ pc = "ready" /\ tmpl.fn = "classify"
    /\ \E f \in FloatValues(tmpl.F) :
         Return(f, [category |-> fpclassify(tmpl.F, f),
                    signbit |-> signbit(f),
                    ilogb |-> ilogb(tmpl.F, f)])

NextCodec ==
    \/ CallRoundTrip
    \/ CallDecompInt
    \/ CallClassify

SpecCodec == InitCodec /\ [][NextCodec]_vars

---------------------------------------------------------------------------
(* Conversions to a floating-point type: of integers, of the values of a    *)
(* floating-point type of the same radix, and of the winning bounds of the  *)
(* entry points that convert a representation.                              *)

InitConv ==
    /\ Ready
    /\ \/ \E F \in Formats, N \in Capacities, I \in IntTypes :
            /\ tmpl = [fn |-> "int_to_float", F |-> F, N |-> N, I |-> I]
            /\ consts = <<>>
       \/ \E Dst \in Formats, Src \in Formats :
            /\ Dst.radix = Src.radix
            /\ Cardinality(FloatValues(Src)) <= MaxValues
            /\ tmpl = [fn |-> "convert", Dst |-> Dst, Src |-> Src,
                       N |-> Max2(Dst.digits, Src.digits)]
            /\ consts = <<>>
       \/ \E I \in IntTypes, F \in Formats :
            /\ tmpl = [fn |-> "in_range_int_float", I |-> I, F |-> F]
            /\ consts = int_float_bounds(I, F)
       \/ \E Dst \in Formats, Src \in Formats :
            /\ Dst.radix = Src.radix
            /\ tmpl = [fn |-> "in_range_float_float", Dst |-> Dst, Src |-> Src]
            /\ consts = float_float_bounds(Dst, Src)

\* F(decomp<F.radix, N>(i)): decompose the integer i and convert to F.
CallIntToFloat ==
    /\ pc = "ready" /\ tmpl.fn = "int_to_float"
    /\ \E i \in IntValues(tmpl.I) :
         LET rep == decomp_from_int(tmpl.F.radix, tmpl.N, tmpl.I, i)
         IN  Return(i, [rep |-> rep, back |-> decomp_to_float(tmpl.F, rep)])

\* Dst(decomp<radix, max(Dst.digits, Src.digits)>(f)) for a value f of Src.
CallConvert ==
    /\ pc = "ready" /\ tmpl.fn = "convert"
    /\ \E f \in FloatValues(tmpl.Src) :
         LET rep == decomp_from_float(tmpl.N, tmpl.Src, f)
         IN  Return(f, [rep |-> rep, back |-> decomp_to_float(tmpl.Dst, rep)])

NextConv ==
    \/ CallIntToFloat
    \/ CallConvert
    \/ CallInRangeIntFloat
    \/ CallInRangeFloatFloat

SpecConv == InitConv /\ [][NextConv]_vars

---------------------------------------------------------------------------
(* The comparator on the representations the codec produces: for a          *)
(* floating-point type F and a capacity N, the decompositions of every      *)
(* value of F and of every value of every integer type, at radix F.radix.   *)

CodecReps(F, N) ==
    { decomp_from_float(N, F, f) : f \in FloatValues(F) }
      \cup UNION { { decomp_from_int(F.radix, N, I, i) : i \in IntValues(I) } : I \in IntTypes }

\* The same struct with its category overwritten by FP_NAN, other fields kept.
AsNaN(x) == [x EXCEPT !.category = FP_NAN]

InitOrder ==
    /\ Ready
    /\ \E F \in Formats, N \in Capacities :
         /\ Cardinality(CodecReps(F, N)) <= MaxReps
         /\ tmpl = [fn |-> "less", F |-> F, N |-> N]
         /\ consts = [reps |-> CodecReps(F, N)]

\* lhs < rhs and rhs < lhs, and the same with either operand made a NaN.
CallLess ==
    /\ pc = "ready" /\ tmpl.fn = "less"
    /\ \E lhs \in consts.reps, rhs \in consts.reps :
         Return(<<lhs, rhs>>,
                [lt |-> less(lhs, rhs), gt |-> less(rhs, lhs),
                 nan_lhs |-> less(AsNaN(lhs), rhs) \/ less(rhs, AsNaN(lhs)),
                 nan_rhs |-> less(lhs, AsNaN(rhs)) \/ less(AsNaN(rhs), lhs)])

NextOrder == CallLess

SpecOrder == InitOrder /\ [][NextOrder]_vars

---------------------------------------------------------------------------
(* Exact mathematics the claims are stated against.                         *)

\* Number of radix-R digits of the natural number n (1 for n < R).
RECURSIVE ExactDigits(_, _)
ExactDigits(R, n) == IF n < R THEN 1 ELSE 1 + ExactDigits(R, n \div R)

\* The integer a representation built from an integer denotes
\* (sum of digits[d] * R^(ilogb - d) over the stored digits, signed).
RECURSIVE IntRepMag(_, _, _)
IntRepMag(R, rep, d) ==
    IF d >= Len(rep.digits) \/ d > rep.ilogb THEN 0
    ELSE rep.digits[d + 1] * Pow(R, rep.ilogb - d) + IntRepMag(R, rep, d + 1)

IntRepValue(R, rep) ==
    IF rep.category = FP_ZERO THEN 0
    ELSE IF rep.signbit THEN -IntRepMag(R, rep, 0) ELSE IntRepMag(R, rep, 0)

\* The magnitude, in units of F, that a finite nonzero representation denotes.
RECURSIVE RepMagUnits(_, _, _)
RepMagUnits(F, rep, d) ==
    IF d >= Len(rep.digits) THEN 0
    ELSE (IF rep.digits[d + 1] = 0 THEN 0
          ELSE rep.digits[d + 1] * Pow(F.radix, rep.ilogb - d + F.digits - F.min_exponent))
         + RepMagUnits(F, rep, d + 1)

\* |n| truncated to its P most significant radix-R digits.
TruncDigits(R, P, n) ==
    LET k == ExactDigits(R, n)
    IN  IF k <= P THEN n ELSE (n \div Pow(R, k - P)) * Pow(R, k - P)

Done(fn) == pc = "done" /\ tmpl.fn = fn

---------------------------------------------------------------------------
(* C1: in_range<I>(f) is true iff I.lowest <= f <= I.max holds for the      *)
(* exact values: f is finite and its exact value lies between the two      *)
(* integer extremes, whatever their naive conversions to F round to.       *)

C1_IntFloatExact ==
    Done("in_range_int_float") =>
        (ret <=> /\ arg.cls = "fin"
                 /\ ILowest(tmpl.I) * One(tmpl.F) <= Units(arg)
                 /\ Units(arg) <= IMax(tmpl.I) * One(tmpl.F))

\* F(I.max) rounds up out of I's range and is rejected.
C1_Witness ==
    /\ Done("in_range_int_float")
    /\ arg = IntToF(tmpl.F, IMax(tmpl.I))
    /\ arg.cls = "fin"
    /\ Units(arg) > IMax(tmpl.I) * One(tmpl.F)
    /\ ret = FALSE

---------------------------------------------------------------------------
(* C2: in_range<F>(i) is true iff F.lowest <= i <= F.max holds for the      *)
(* exact values; when F's range contains I's every i is accepted, when it   *)
(* is narrower exactly the integers from trunc(F.lowest) to trunc(F.max).   *)

C2_FloatIntExact ==
    Done("in_range_float_int") =>
        LET F == tmpl.F
            I == tmpl.I
            contains == /\ -MaxMant(F) <= ILowest(I) * One(F)
                        /\ IMax(I) * One(F) <= MaxMant(F)
        IN  /\ ret <=> (-MaxMant(F) <= arg * One(F) /\ arg * One(F) <= MaxMant(F))
            /\ contains => ret
            /\ ~contains =>
                 (ret <=> /\ -(MaxMant(F) \div One(F)) <= arg
                          /\ arg <= MaxMant(F) \div One(F))

\* F.max lies strictly inside I's range: I.max is rejected.
C2_Witness ==
    /\ Done("in_range_float_int")
    /\ MaxMant(tmpl.F) < IMax(tmpl.I) * One(tmpl.F)
    /\ arg = IMax(tmpl.I)
    /\ ret = FALSE

---------------------------------------------------------------------------
(* C3: for same-radix Dst and Src, in_range<Dst>(f) is true iff             *)
(* Dst.lowest <= f <= Dst.max for the exact values.                         *)

\* Exponent of the unit of F: min_exponent - digits.
UnitExp(F) == F.min_exponent - F.digits

\* The magnitude m units of Src and the magnitude n units of Dst, on a common scale.
SrcScaled(Dst, Src, m) == m * Pow(Src.radix, UnitExp(Src) - Min2(UnitExp(Src), UnitExp(Dst)))

DstScaled(Dst, Src, n) == n * Pow(Dst.radix, UnitExp(Dst) - Min2(UnitExp(Src), UnitExp(Dst)))

C3_FloatFloatExact ==
    Done("in_range_float_float") =>
        (ret <=> /\ arg.cls = "fin"
                 /\ SrcScaled(tmpl.Dst, tmpl.Src, arg.m)
                      <= DstScaled(tmpl.Dst, tmpl.Src, MaxMant(tmpl.Dst)))

\* A value of a more precise Src just above Dst.max, which conversion to Dst
\* would round to Dst.max, is rejected.
C3_Witness ==
    /\ Done("in_range_float_float")
    /\ tmpl.Src.digits > tmpl.Dst.digits
    /\ arg.cls = "fin"
    /\ SrcScaled(tmpl.Dst, tmpl.Src, arg.m) > DstScaled(tmpl.Dst, tmpl.Src, MaxMant(tmpl.Dst))
    /\ RoundQ(tmpl.Dst, arg.sign, SrcScaled(tmpl.Dst, tmpl.Src, arg.m),
              DstScaled(tmpl.Dst, tmpl.Src, 1)) = Fin(arg.sign, MaxMant(tmpl.Dst))
    /\ ret = FALSE

---------------------------------------------------------------------------
(* C4: in_range<I>(f) is false for NaN and for either infinity, and the     *)
(* bounds min_in_range and max_in_range are finite.                         *)

C4_NonFiniteRejected ==
    tmpl.fn = "in_range_int_float" =>
        /\ consts.min_in_range.cls = "fin"
        /\ consts.max_in_range.cls = "fin"
        /\ (pc = "done" /\ arg.cls # "fin") => ret = FALSE

C4_Witness ==
    /\ Done("in_range_int_float")
    /\ arg = NaN(TRUE)
    /\ MaxMant(tmpl.F) < IMax(tmpl.I) * One(tmpl.F)
    /\ ret = FALSE

---------------------------------------------------------------------------
(* C5: round trip.  Every finite value v of F, decomposed at a capacity     *)
(* N >= F.digits and converted back to F, is v again, sign bit included.    *)

C5_RoundTrip ==
    (Done("round_trip") /\ arg.cls = "fin" /\ tmpl.N >= tmpl.F.digits)
        => ret.back = arg

\* A negative subnormal makes the round trip.
C5_Witness ==
    /\ Done("round_trip")
    /\ tmpl.N >= tmpl.F.digits
    /\ arg.cls = "fin" /\ arg.sign
    /\ 0 < arg.m /\ arg.m < MinNormalMant(tmpl.F)
    /\ ret.rep.category = FP_SUBNORMAL
    /\ ret.back = arg

---------------------------------------------------------------------------
(* C6: decomp<R,N>(i) for i # 0 with k digits: sign of i, exponent k-1 and  *)
(* the N most significant digits of |i|; the value denoted is |i| with the  *)
(* digits below R^(k-N) cleared, so it is <= |i| and differs from it by     *)
(* less than R^(k-N); it is exactly i when k <= N.                          *)

C6_IntTruncation ==
    (Done("decomp_int") /\ arg # 0) =>
        LET R == tmpl.radix
            N == tmpl.N
            k == ExactDigits(R, Abs(arg))
            v == IntRepValue(R, ret.rep)
        IN  /\ ret.idigits = k
            /\ ret.rep.category = FP_NORMAL
            /\ ret.rep.ilogb = k - 1
            /\ ret.rep.signbit = (arg < 0)
            /\ \A d \in 0..(N - 1) :
                 ret.rep.digits[d + 1] =
                    IF d < k THEN (Abs(arg) \div Pow(R, k - 1 - d)) % R ELSE 0
            /\ Abs(v) = TruncDigits(R, N, Abs(arg))
            /\ (v < 0) = (arg < 0)
            /\ Abs(v) <= Abs(arg)
            /\ k > N => Abs(arg) - Abs(v) < Pow(R, k - N)
            /\ k <= N => v = arg

\* I.lowest of a signed type, with more digits than the capacity.
C6_Witness ==
    /\ Done("decomp_int")
    /\ tmpl.I.signed
    /\ arg = ILowest(tmpl.I)
    /\ ret.idigits > tmpl.N
    /\ IntRepValue(tmpl.radix, ret.rep) = arg

---------------------------------------------------------------------------
(* C9: the integer-typed bounds of in_range<F>(I).                          *)

\* F.lowest lies strictly above I.lowest; F.max lies strictly below I.max.
FloatLowestTighter(F, I) == ILowest(I) * One(F) < -MaxMant(F)

FloatMaxTighter(F, I) == MaxMant(F) < IMax(I) * One(F)

\* C9 as claimed: when the floating bound is the tighter one, the bound of
\* in_range<F>(I) is the integer type's own extreme.
C9_AsClaimed ==
    tmpl.fn = "in_range_float_int" =>
        /\ FloatLowestTighter(tmpl.F, tmpl.I) => consts.min_in_range = ILowest(tmpl.I)
        /\ FloatMaxTighter(tmpl.F, tmpl.I) => consts.max_in_range = IMax(tmpl.I)

\* C9 amended: when the floating bound is the tighter one, the bound is that
\* floating extreme truncated toward zero to an integer; the integer type's own
\* extreme is the bound exactly when the floating bound is not tighter.
C9_Amended ==
    tmpl.fn = "in_range_float_int" =>
        LET F == tmpl.F
            I == tmpl.I
        IN  /\ consts.min_in_range =
                 IF FloatLowestTighter(F, I) THEN -(MaxMant(F) \div One(F)) ELSE ILowest(I)
            /\ consts.max_in_range =
                 IF FloatMaxTighter(F, I) THEN MaxMant(F) \div One(F) ELSE IMax(I)
            /\ FloatLowestTighter(F, I) => consts.min_in_range > ILowest(I)
            /\ FloatMaxTighter(F, I) => consts.max_in_range < IMax(I)

\* Both floating bounds are tighter than a signed type's extremes.
C9_Witness ==
    /\ tmpl.fn = "in_range_float_int"
    /\ FloatLowestTighter(tmpl.F, tmpl.I)
    /\ FloatMaxTighter(tmpl.F, tmpl.I)
    /\ consts.max_in_range = MaxMant(tmpl.F) \div One(tmpl.F)
    /\ consts.min_in_range = -consts.max_in_range

---------------------------------------------------------------------------
(* C10: the digit capacity at which the entry points decompose the          *)
(* extremal values.                                                         *)

\* max(F's precision, digit count of I's extremes in F's radix)
FullCapacity(F, I) ==
    Max2(F.digits, Max2(ExactDigits(F.radix, Abs(ILowest(I))),
                        ExactDigits(F.radix, IMax(I))))

\* The representation holds the extreme of F exactly.
FloatExtremeExact(F, rep, neg) ==
    /\ rep.category = FP_NORMAL
    /\ rep.signbit = neg
    /\ RepMagUnits(F, rep, 0) = MaxMant(F)

\* C10 as claimed: all three entry points decompose every extremal value at a
\* capacity of at least max(F's precision, digit count of I's extremes), so no
\* digit of I.lowest or I.max is dropped.
C10_AsClaimed ==
    /\ tmpl.fn \in {"in_range_int_float", "in_range_float_int"} =>
         /\ consts.capacity >= FullCapacity(tmpl.F, tmpl.I)
         /\ IntRepValue(tmpl.F.radix, consts.dimin) = ILowest(tmpl.I)
         /\ IntRepValue(tmpl.F.radix, consts.dimax) = IMax(tmpl.I)
    /\ tmpl.fn = "in_range_float_float" =>
         consts.capacity >= Max2(tmpl.Dst.digits, tmpl.Src.digits)

\* C10 amended: in_range<F>(I) and in_range<Dst>(Src) decompose every extremal
\* value at a capacity that holds all its digits; in_range<I>(F) decomposes at
\* exactly F's precision, which holds F.lowest and F.max in full and keeps of
\* I.lowest and I.max the F.digits most significant digits.
C10_Amended ==
    /\ tmpl.fn = "in_range_float_int" =>
         /\ consts.capacity = FullCapacity(tmpl.F, tmpl.I)
         /\ IntRepValue(tmpl.F.radix, consts.dimin) = ILowest(tmpl.I)
         /\ IntRepValue(tmpl.F.radix, consts.dimax) = IMax(tmpl.I)
         /\ FloatExtremeExact(tmpl.F, consts.dfmin, TRUE)
         /\ FloatExtremeExact(tmpl.F, consts.dfmax, FALSE)
    /\ tmpl.fn = "in_range_float_float" =>
         /\ consts.capacity = Max2(tmpl.Dst.digits, tmpl.Src.digits)
         /\ FloatExtremeExact(tmpl.Dst, consts.dmin, TRUE)
         /\ FloatExtremeExact(tmpl.Dst, consts.dmax, FALSE)
         /\ FloatExtremeExact(tmpl.Src, consts.smin, TRUE)
         /\ FloatExtremeExact(tmpl.Src, consts.smax, FALSE)
    /\ tmpl.fn = "in_range_int_float" =>
         /\ consts.capacity = tmpl.F.digits
         /\ FloatExtremeExact(tmpl.F, consts.dfmin, TRUE)
         /\ FloatExtremeExact(tmpl.F, consts.dfmax, FALSE)
         /\ IntRepValue(tmpl.F.radix, consts.dimin)
              = -TruncDigits(tmpl.F.radix, tmpl.F.digits, Abs(ILowest(tmpl.I)))
         /\ IntRepValue(tmpl.F.radix, consts.dimax)
              = TruncDigits(tmpl.F.radix, tmpl.F.digits, IMax(tmpl.I))

\* in_range<I>(F) drops digits of I.max: I.max has more digits than F's precision.
C10_Witness ==
    /\ tmpl.fn = "in_range_int_float"
    /\ ExactDigits(tmpl.F.radix, IMax(tmpl.I)) > tmpl.F.digits
    /\ consts.capacity = tmpl.F.digits
    /\ IntRepValue(tmpl.F.radix, consts.dimax) < IMax(tmpl.I)

---------------------------------------------------------------------------
(* The value a representation denotes, in the extended reals: a pair        *)
(* <<class, units>> with class -1 for -infinity, 0 for a finite value and   *)
(* 1 for +infinity; units is the signed value in units of tmpl.F.           *)

RepValue(F, x) ==
    IF isinf(x) THEN <<IF x.signbit THEN -1 ELSE 1, 0>>
    ELSE IF iszero(x) THEN <<0, 0>>
    ELSE <<0, IF x.signbit THEN -RepMagUnits(F, x, 0) ELSE RepMagUnits(F, x, 0)>>

ValueLess(u, v) == u[1] < v[1] \/ (u[1] = v[1] /\ u[2] < v[2])

---------------------------------------------------------------------------
(* C7: ordering totality.  For representations a, b the codec produces,     *)
(* NaN excluded, exactly one of a<b, b<a, 'a and b denote the same value'   *)
(* holds, and a<b and b<c imply a<c for every such c.                       *)

C7_OrderingTotality ==
    (Done("less") /\ ~isnan(arg[1]) /\ ~isnan(arg[2])) =>
        LET a    == arg[1]
            b    == arg[2]
            same == RepValue(tmpl.F, a) = RepValue(tmpl.F, b)
        IN  /\ (ret.lt /\ ~ret.gt /\ ~same)
               \/ (~ret.lt /\ ret.gt /\ ~same)
               \/ (~ret.lt /\ ~ret.gt /\ same)
            /\ \A c \in consts.reps :
                 (~isnan(c) /\ ret.lt /\ less(b, c)) => less(a, c)

\* -0 and +0: neither is less, and they denote the same value.
C7_Witness ==
    /\ Done("less")
    /\ iszero(arg[1]) /\ iszero(arg[2])
    /\ arg[1].signbit /\ ~arg[2].signbit
    /\ ~ret.lt /\ ~ret.gt

---------------------------------------------------------------------------
(* C8: lhs<rhs is true iff neither operand is NaN and value(lhs) <          *)
(* value(rhs) in the extended reals; with a NaN operand the result is       *)
(* false in both directions, whatever the other fields hold.                *)

C8_LessIsNumericOrder ==
    Done("less") =>
        LET a == arg[1]
            b == arg[2]
        IN  /\ ret.lt <=> /\ ~isnan(a) /\ ~isnan(b)
                          /\ ValueLess(RepValue(tmpl.F, a), RepValue(tmpl.F, b))
            /\ ~ret.nan_lhs
            /\ ~ret.nan_rhs

\* Two negative values with different exponents: the larger exponent is less.
C8_Witness ==
    /\ Done("less")
    /\ isneg(arg[1]) /\ isneg(arg[2])
    /\ ~isinf(arg[1]) /\ ~isinf(arg[2])
    /\ arg[1].ilogb > arg[2].ilogb
    /\ ret.lt

---------------------------------------------------------------------------
(* C11: conversion of a representation to F.                                *)

\* The floating-point type a finished conversion produced its result in.
ConvTarget == IF tmpl.fn = "convert" THEN tmpl.Dst ELSE tmpl.F

ConvDone == Done("round_trip") \/ Done("int_to_float") \/ Done("convert")

Finite(rep) == rep.category = FP_NORMAL \/ rep.category = FP_SUBNORMAL

\* Number of digits operator F reads: min(P, N).
UsedDigits(F, rep) == Min2(F.digits, Len(rep.digits))

\* sum(digits[d] * R^(ilogb - d)) over the digits d..lim-1, in units of F.
RECURSIVE SumUnits(_, _, _, _)
SumUnits(F, rep, d, lim) ==
    IF d >= lim THEN 0
    ELSE (IF rep.digits[d + 1] = 0 THEN 0
          ELSE rep.digits[d + 1] * Pow(F.radix, rep.ilogb - d - UnitExp(F)))
         + SumUnits(F, rep, d + 1, lim)

\* Every nonzero digit the conversion reads lies at or above F's smallest
\* subnormal position, before and after the scaling by R^ilogb.
SumRepresentable(F, rep) ==
    \A d \in 0..(UsedDigits(F, rep) - 1) :
        rep.digits[d + 1] # 0 => (-d >= UnitExp(F) /\ rep.ilogb - d >= UnitExp(F))

Saturates(F, rep) == Finite(rep) /\ rep.ilogb >= F.max_exponent

\* In in_range<I>(F) and in_range<Dst>(Src) the bound that wins the comparison
\* is converted without saturating, to a finite value.  in_range<F>(I)
\* converts no representation: its bounds are integers.
WinnersDoNotSaturate ==
    /\ tmpl.fn = "in_range_int_float" =>
          /\ ~Saturates(tmpl.F, std_max(consts.dfmin, consts.dimin))
          /\ ~Saturates(tmpl.F, std_min(consts.dfmax, consts.dimax))
          /\ consts.min_in_range.cls = "fin" /\ consts.max_in_range.cls = "fin"
    /\ tmpl.fn = "in_range_float_float" =>
          /\ ~Saturates(tmpl.Src, std_max(consts.dmin, consts.smin))
          /\ ~Saturates(tmpl.Src, std_min(consts.dmax, consts.smax))
          /\ consts.min_in_range.cls = "fin" /\ consts.max_in_range.cls = "fin"

SaturatesToSignedInfinity ==
    (ConvDone /\ Saturates(ConvTarget, ret.rep))
        => ret.back = Inf(ret.rep.signbit)

\* C11 as the claim states it: at or beyond max_exponent the result is the
\* signed infinity; below max_exponent it is the finite value
\* sum(digits[d] * R^(ilogb - d)) over the first min(P, N) digits, signed; the
\* winning bounds of the entry points do not saturate.
C11_AsClaimed ==
    /\ SaturatesToSignedInfinity
    /\ (ConvDone /\ Finite(ret.rep) /\ ret.rep.ilogb < ConvTarget.max_exponent)
          => /\ SumRepresentable(ConvTarget, ret.rep)
             /\ ret.back = Fin(ret.rep.signbit,
                               SumUnits(ConvTarget, ret.rep, 0,
                                        UsedDigits(ConvTarget, ret.rep)))
    /\ WinnersDoNotSaturate

\* C11 amended: below max_exponent the result is finite and carries the
\* representation's sign, and it is the sum exactly when F can represent the
\* sum; a nonzero digit below F's smallest subnormal position is rounded away
\* by the scaling.
C11_Amended ==
    /\ SaturatesToSignedInfinity
    /\ (ConvDone /\ Finite(ret.rep) /\ ret.rep.ilogb < ConvTarget.max_exponent)
          => /\ ret.back.cls = "fin" /\ ret.back.sign = ret.rep.signbit
             /\ SumRepresentable(ConvTarget, ret.rep)
                   => ret.back.m = SumUnits(ConvTarget, ret.rep, 0,
                                            UsedDigits(ConvTarget, ret.rep))
    /\ WinnersDoNotSaturate

\* A negative integer whose exponent is at F's max_exponent or beyond converts
\* to minus infinity.
C11_Witness ==
    /\ Done("int_to_float")
    /\ arg < 0
    /\ ret.rep.category = FP_NORMAL
    /\ ret.rep.ilogb >= tmpl.F.max_exponent
    /\ ret.back = Inf(TRUE)

---------------------------------------------------------------------------
(* C12: the portable ilogb and fpclassify.                                  *)

\* R^e <= |v| < R^(e+1) for the finite nonzero value v of F, |v| = m units.
ExponentOf(F, m, e) ==
    LET k == e - UnitExp(F)
    IN  k >= 0 /\ Pow(F.radix, k) <= m /\ m < Pow(F.radix, k + 1)

Categories == {FP_ZERO, FP_SUBNORMAL, FP_NORMAL, FP_INFINITE, FP_NAN}

\* The category the value f of F belongs to.
CategoryOf(F, f) ==
    IF f.cls = "nan" THEN FP_NAN
    ELSE IF f.cls = "inf" THEN FP_INFINITE
    ELSE IF f.m = 0 THEN FP_ZERO
    ELSE IF f.m < MinNormalMant(F) THEN FP_SUBNORMAL
    ELSE FP_NORMAL

\* C12: ilogb(v) is the e with R^e <= |v| < R^(e+1) for every nonzero finite v
\* of either sign, subnormals included (their true exponent, below
\* min_exponent - 1); it is FP_ILOGB0 for +0 and -0, INT_MAX for the
\* infinities and FP_ILOGBNAN for a NaN.  fpclassify(v) is one of the five
\* categories, and it is Subnormal exactly for 0 < |v| < F.min.
C12_Classification ==
    Done("classify") =>
        /\ (arg.cls = "fin" /\ arg.m > 0) => ExponentOf(tmpl.F, arg.m, ret.ilogb)
        /\ (arg.cls = "fin" /\ arg.m = 0) => ret.ilogb = FP_ILOGB0
        /\ arg.cls = "inf" => ret.ilogb = INT_MAX
        /\ arg.cls = "nan" => ret.ilogb = FP_ILOGBNAN
        /\ ret.category \in Categories
        /\ ret.category = CategoryOf(tmpl.F, arg)
        /\ ret.category = FP_SUBNORMAL
              <=> (arg.cls = "fin" /\ 0 < arg.m /\ arg.m < MinNormalMant(tmpl.F))

\* A negative subnormal whose exponent lies below that of the smallest normal
\* value is classified Subnormal and given its true exponent.
C12_Witness ==
    /\ Done("classify")
    /\ arg.cls = "fin" /\ arg.sign /\ arg.m > 0
    /\ ret.category = FP_SUBNORMAL
    /\ ret.ilogb < tmpl.F.min_exponent - 1
    /\ ExponentOf(tmpl.F, arg.m, ret.ilogb)

---------------------------------------------------------------------------
(* C13: well-formedness of the representations the constructors build.      *)

\* The magnitude m * R^unit, whose leading digit has exponent e, has no
\* nonzero digit at position d (exponent e - d) or after it.
NoDigitFrom(R, m, unit, e, d) ==
    LET k == e - d + 1 - unit
    IN  k <= 0 \/ m % Pow(R, k) = 0

\* All N digits lie in [0, R), and the first one in [1, R) when the category
\* is Normal or Subnormal.
DigitsInRange(R, N, rep) ==
    /\ DOMAIN rep.digits = 1..N
    /\ \A d \in 1..N : rep.digits[d] \in 0..(R - 1)
    /\ Finite(rep) => rep.digits[1] \in 1..(R - 1)

\* C13: the representation decomp<R, N> builds from a floating-point value
\* (finite, zero, infinite or NaN) or from an integer has N digits, all in
\* [0, R); every digit after the last significant digit of the value is 0
\* (all of them when the value is zero, infinite or NaN); and the first digit
\* is in [1, R) when the category is Normal or Subnormal.
C13_WellFormed ==
    /\ Done("round_trip") =>
          LET F == tmpl.F
              e == ExactDigits(F.radix, arg.m) - 1 + UnitExp(F)
          IN  /\ DigitsInRange(F.radix, tmpl.N, ret.rep)
              /\ Finite(ret.rep) <=> (arg.cls = "fin" /\ arg.m > 0)
              /\ \A d \in 0..(tmpl.N - 1) :
                    (~Finite(ret.rep) \/ NoDigitFrom(F.radix, arg.m, UnitExp(F), e, d))
                        => ret.rep.digits[d + 1] = 0
    /\ Done("decomp_int") =>
          LET R == tmpl.radix
              e == ExactDigits(R, Abs(arg)) - 1
          IN  /\ DigitsInRange(R, tmpl.N, ret.rep)
              /\ Finite(ret.rep) <=> arg # 0
              /\ \A d \in 0..(tmpl.N - 1) :
                    (~Finite(ret.rep) \/ NoDigitFrom(R, Abs(arg), 0, e, d))
                        => ret.rep.digits[d + 1] = 0

\* A subnormal decomposed at a capacity above F's precision: a first digit in
\* [1, R), a nonzero second digit, and zeros after the last significant one.
C13_Witness ==
    /\ Done("round_trip")
    /\ tmpl.N > tmpl.F.digits
    /\ ret.rep.category = FP_SUBNORMAL
    /\ ret.rep.digits[1] \in 1..(tmpl.F.radix - 1)
    /\ ret.rep.digits[2] # 0
    /\ ret.rep.digits[tmpl.N] = 0
    /\ NoDigitFrom(tmpl.F.radix, arg.m, UnitExp(tmpl.F), ret.rep.ilogb, tmpl.N - 1)

===========================================================================
